---- MODULE Spec2Model ----
(***************************************************************************)
(* Model of dump.py (frida-ipa-dump): the IPADump controller, its message  *)
(* handler and the Task file writers.                                      *)
(*                                                                         *)
(* Two threads act on the state: the main thread, which walks through      *)
(* run()/dump(), and the transport's delivery thread, which calls          *)
(* on_message once per message.  One delivery is one atomic step.  An      *)
(* exception that leaves on_message is caught and printed by the           *)
(* transport's callback wrapper: it is recorded in "raised" and the        *)
(* session goes on.  An exception that leaves dump() is uncaught in the    *)
(* main thread and ends the process with status 1.                         *)
(*                                                                         *)
(* Files are CPython buffered binary writers: a write may stay in the      *)
(* writer's buffer, close() flushes it at the writer's own offset, and a   *)
(* Task that loses its last reference is finalised (flushed and closed)    *)
(* at once by reference counting.  File-system calls succeed.              *)
(***************************************************************************)
EXTENDS Integers, Sequences, FiniteSets, TLC

\* ---------------------------------------------------------------- bounds
MaxWriters == 2
MaxTell == 1
MaxChunk == 1

\* ------------------------------------------------------------ input sets
Streams == {"s1", "s2"}
Bytes == {1, 2}
Sizes == {2}
Outputs == {"None", "file"}
Roots == {"r1", "r2"}
Containers == {"c1"}
Tokens == {"t1"}
NoValue == "-"

Chunks == UNION {[1..n -> Bytes] : n \in 0..MaxChunk}

Max(a, b) == IF a > b THEN a ELSE b

VARIABLES
  pc,          \* position of the main thread in run()/dump()
  output,      \* IPADump.output
  ipa_name,    \* IPADump.ipa_name
  self_session,\* IPADump.session
  opt,         \* IPADump.opt
  tasks,       \* IPADump.tasks: stream id -> writer (Task) id
  writers,     \* every Task ever constructed, by id
  disk,        \* path -> file content
  frida,       \* the frida session of dump(): "none", "attached", "detached"
  handler,     \* script.on('message', ...) was called
  loaded,      \* script.load() returned
  inflight,    \* name of the exports call the main thread is blocked in
  results,     \* name -> value returned by the exports call
  callLog,     \* exports calls made, in order, with their arguments
  exitCode,    \* "running", or the exit status "0" or "1" of the process
  detaches,    \* number of successful session.detach() calls
  nTasks,      \* number of Tasks constructed so far
  scen,        \* shape of the delivered message sequence (see Scenario)
  fresh,       \* the table was empty when the sequence of scen began
  lastMsg,     \* the message handled by the last delivery
  raised,      \* exception that left on_message in the last delivery
  logged,      \* the last delivery printed "unknown message"
  lastW        \* writer the last delivery created, wrote to or closed (0: none)

objvars == <<tasks, writers, disk>>
mainvars == <<pc, output, ipa_name, self_session, opt, handler, loaded, inflight,
              results, callLog>>
msgvars == <<nTasks, scen, fresh, lastMsg, raised, logged, lastW>>
vars == <<pc, output, ipa_name, self_session, opt, tasks, writers, disk, frida,
          handler, loaded, inflight, results, callLog, exitCode, detaches,
          nTasks, scen, fresh, lastMsg, raised, logged, lastW>>

NoMsg == [type |-> NoValue, subject |-> NoValue, event |-> NoValue,
          session |-> NoValue, size |-> 0, data |-> <<>>]

\* Messages the agent can send: the envelope of on_message.
Messages ==
  {[type |-> "send", subject |-> "download", event |-> e, session |-> s,
    size |-> z, data |-> <<>>] : e \in {"start", "end", "error"}, s \in Streams, z \in Sizes}
  \cup
  {[type |-> "send", subject |-> "download", event |-> "data", session |-> s,
    size |-> z, data |-> d] : s \in Streams, z \in Sizes, d \in Chunks}
  \cup
  {[type |-> "send", subject |-> "download", event |-> "bogus", session |-> "s1",
    size |-> z, data |-> <<>>] : z \in Sizes}
  \cup
  {[type |-> "send", subject |-> sb, event |-> NoValue, session |-> NoValue,
    size |-> 0, data |-> <<>>] : sb \in {"finish", "other"}}
  \cup
  {[type |-> "error", subject |-> "finish", event |-> NoValue, session |-> NoValue,
    size |-> 0, data |-> <<>>]}

\* ------------------------------------------------------------ file system

\* Content of a file after writing bytes at offset pos (a write past the
\* end leaves a hole of zero bytes).
WriteAt(content, pos, bytes) ==
  IF bytes = <<>> THEN content
  ELSE LET n == Max(Len(content), pos + Len(bytes))
       IN [i \in 1..n |->
             IF i > pos /\ i <= pos + Len(bytes) THEN bytes[i - pos]
             ELSE IF i <= Len(content) THEN content[i]
             ELSE 0]

\* file.tell(): bytes handed to the writer so far.
Tell(w) == w.pos + Len(w.buf)

\* ------------------------------------------------------------------ Task

\* The state the handlers act on.
HState == [tasks |-> tasks, writers |-> writers, disk |-> disk, frida |-> frida,
           exitCode |-> exitCode, detaches |-> detaches, nTasks |-> nTasks,
           raised |-> "none", logged |-> FALSE, lastW |-> 0]

\* Task.__init__ with open(path, 'ab'): an existing file keeps its content.
Task_init_append(st, id, session, path, size) ==
  [st EXCEPT !.writers = [w \in DOMAIN st.writers \cup {id} |->
                            IF w = id
                            THEN [session |-> session, path |-> path, size |-> size,
                                  pos |-> 0, buf |-> <<>>, open |-> TRUE,
                                  chunks |-> <<>>]
                            ELSE st.writers[w]],
             !.disk = [p \in DOMAIN st.disk \cup {path} |->
                         IF p \in DOMAIN st.disk THEN st.disk[p] ELSE <<>>]]

\* Task.__init__: open(path, 'wb') creates or truncates the file.
Task_init(st, id, session, path, size) ==
  [st EXCEPT !.writers = [w \in DOMAIN st.writers \cup {id} |->
                            IF w = id
                            THEN [session |-> session, path |-> path, size |-> size,
                                  pos |-> 0, buf |-> <<>>, open |-> TRUE,
                                  chunks |-> <<>>]
                            ELSE st.writers[w]],
             !.disk = [p \in DOMAIN st.disk \cup {path} |->
                         IF p = path THEN <<>> ELSE st.disk[p]]]

\* Task.write: file.write(data).  The first k bytes of data go to the file
\* together with the buffer's content, the rest stays buffered; k = -1 is
\* the case where all of data fits in the buffer and nothing reaches the file.
Task_write(st, id, data, k) ==
  LET w == st.writers[id]
      out == IF k < 0 THEN <<>> ELSE w.buf \o SubSeq(data, 1, k)
      keep == IF k < 0 THEN w.buf \o data ELSE SubSeq(data, k + 1, Len(data))
  IN [st EXCEPT !.writers[id].pos = w.pos + Len(out),
                !.writers[id].buf = keep,
                !.writers[id].chunks = w.chunks \o data,
                !.disk[w.path] = WriteAt(st.disk[w.path], w.pos, out)]

\* Task.close: file.close() flushes the buffer and releases the handle.
Task_close(st, id) ==
  LET w == st.writers[id]
  IN [st EXCEPT !.writers[id].pos = w.pos + Len(w.buf),
                !.writers[id].buf = <<>>,
                !.writers[id].open = FALSE,
                !.disk[w.path] = WriteAt(st.disk[w.path], w.pos, w.buf)]

\* Task.finish
Task_finish(st, id) == Task_close(st, id)

\* A Task that loses its last reference: the file object's finaliser closes
\* it, which flushes what is still buffered.
Task_dealloc(st, id) == Task_close(st, id)

\* ----------------------------------------------------------------- IPADump

\* IPADump.on_download_start: the new Task is constructed first (the file is
\* truncated), then stored under the stream id; a Task already stored there
\* is replaced and finalised.
on_download_start(st, session, size) ==
  LET id == st.nTasks + 1
      made == [Task_init(st, id, session, ipa_name, size) EXCEPT !.nTasks = id]
      put == [made EXCEPT !.tasks = [s \in DOMAIN st.tasks \cup {session} |->
                                       IF s = session THEN id ELSE st.tasks[s]],
                          !.lastW = id]
  IN IF session \in DOMAIN st.tasks
     THEN Task_dealloc(put, st.tasks[session])
     ELSE put

\* on_download_data that ends the process when the stream id is unknown.
on_download_data_fatal(st, session, data, k) ==
  IF session \notin DOMAIN st.tasks
  THEN [st EXCEPT !.raised = "KeyError", !.exitCode = "1"]
  ELSE IF ~st.writers[st.tasks[session]].open
  THEN [st EXCEPT !.raised = "ValueError"]
  ELSE [Task_write(st, st.tasks[session], data, k) EXCEPT !.lastW = st.tasks[session]]

\* IPADump.on_download_data; file.write on a closed file raises ValueError.
on_download_data(st, session, data, k) ==
  IF session \notin DOMAIN st.tasks
  THEN [st EXCEPT !.raised = "KeyError"]
  ELSE IF ~st.writers[st.tasks[session]].open
  THEN [st EXCEPT !.raised = "ValueError"]
  ELSE [Task_write(st, st.tasks[session], data, k) EXCEPT !.lastW = st.tasks[session]]

\* close_session written with a lookup that tolerates a missing stream id.
close_session_lenient(st, session) ==
  IF session \notin DOMAIN st.tasks
  THEN st
  ELSE LET done == Task_finish(st, st.tasks[session])
       IN [done EXCEPT !.tasks = [s \in DOMAIN st.tasks \ {session} |-> st.tasks[s]],
                       !.lastW = st.tasks[session]]

\* close_session without the del: the closed Task stays in the table.
close_session_keep(st, session) ==
  IF session \notin DOMAIN st.tasks
  THEN [st EXCEPT !.raised = "KeyError"]
  ELSE [Task_finish(st, st.tasks[session]) EXCEPT !.lastW = st.tasks[session]]

\* IPADump.close_session
close_session(st, session) ==
  IF session \notin DOMAIN st.tasks
  THEN [st EXCEPT !.raised = "KeyError"]
  ELSE LET done == Task_finish(st, st.tasks[session])
       IN [done EXCEPT !.tasks = [s \in DOMAIN st.tasks \ {session} |-> st.tasks[s]],
                       !.lastW = st.tasks[session]]

\* IPADump.on_download_finish
on_download_finish(st, session) == close_session(st, session)

\* on_download_error that drops what the Task still has buffered.
on_download_error_drop(st, session) ==
  IF session \notin DOMAIN st.tasks
  THEN [st EXCEPT !.raised = "KeyError"]
  ELSE LET id == st.tasks[session]
       IN [st EXCEPT !.writers[id].buf = <<>>,
                     !.writers[id].open = FALSE,
                     !.tasks = [s \in DOMAIN st.tasks \ {session} |-> st.tasks[s]],
                     !.lastW = id]

\* IPADump.on_download_error
on_download_error(st, session) == close_session(st, session)

\* session.detach() of the transport: detaches an attached session.
session_detach(st) ==
  IF st.frida = "attached"
  THEN [st EXCEPT !.frida = "detached", !.detaches = st.detaches + 1]
  ELSE st

\* Keys of method_mapping in on_message.
method_mapping == {"start", "data", "end", "error"}

\* The finish branch of on_message: self.session.detach(), sys.exit(0).
\* self.session is the attribute set in __init__, not dump()'s local session.
on_finish(st) ==
  IF self_session = "None"
  THEN [st EXCEPT !.raised = "AttributeError"]
  ELSE [session_detach(st) EXCEPT !.exitCode = "0"]

\* on_message with method_mapping.get: an unknown event is logged.
on_message_default_event(st, msg, k) ==
  IF msg.type # "send"
  THEN [st EXCEPT !.logged = TRUE]
  ELSE IF msg.subject = "download"
  THEN IF msg.event \notin method_mapping
       THEN [st EXCEPT !.logged = TRUE]
       ELSE CASE msg.event = "start" -> on_download_start(st, msg.session, msg.size)
              [] msg.event = "data" -> on_download_data(st, msg.session, msg.data, k)
              [] msg.event = "end" -> on_download_finish(st, msg.session)
              [] msg.event = "error" -> on_download_error(st, msg.session)
  ELSE IF msg.subject = "finish"
  THEN on_finish(st)
  ELSE [st EXCEPT !.logged = TRUE]

\* on_message that looks at the subject before the message type.
on_message_subject_first(st, msg, k) ==
  IF msg.subject = "download" /\ msg.type = "send"
  THEN IF msg.event \notin method_mapping
       THEN [st EXCEPT !.raised = "KeyError"]
       ELSE CASE msg.event = "start" -> on_download_start(st, msg.session, msg.size)
              [] msg.event = "data" -> on_download_data(st, msg.session, msg.data, k)
              [] msg.event = "end" -> on_download_finish(st, msg.session)
              [] msg.event = "error" -> on_download_error(st, msg.session)
  ELSE IF msg.subject = "finish"
  THEN on_finish(st)
  ELSE [st EXCEPT !.logged = TRUE]

\* IPADump.on_message
on_message(st, msg, k) ==
  IF msg.type # "send"
  THEN [st EXCEPT !.logged = TRUE]
  ELSE IF msg.subject = "download"
  THEN IF msg.event \notin method_mapping
       THEN [st EXCEPT !.raised = "KeyError"]
       ELSE CASE msg.event = "start" -> on_download_start(st, msg.session, msg.size)
              [] msg.event = "data" -> on_download_data(st, msg.session, msg.data, k)
              [] msg.event = "end" -> on_download_finish(st, msg.session)
              [] msg.event = "error" -> on_download_error(st, msg.session)
  ELSE IF msg.subject = "finish"
  THEN on_finish(st)
  ELSE [st EXCEPT !.logged = TRUE]

\* ------------------------------------------------- history of the deliveries

IsDownload(msg, ev) == msg.type = "send" /\ msg.subject = "download" /\ msg.event = ev

\* The shape of the sequence of deliveries that ends with msg, whose handling
\* gave st.  With a, b two distinct stream ids:
\*   "S"     start(a)
\*   "SD"    start(a), then one or more data(a)
\*   "SE"    start(a), zero or more data(a), end(a)
\*   "SS"    start(a), start(b), then data events of a and b
\*   "SSE"   the same, then the end of one of the two and data of the other
\*   "SSEE"  the same, then the end of the other
\*   "F"     finish
\*   "FF"    finish, finish
\*   "none"  anything else
Scenario(msg, st) ==
  LET own == st.raised = "none" /\ st.lastW # 0 /\ st.lastW = lastW
  IN CASE IsDownload(msg, "start") ->
            IF scen = "S" /\ msg.session \notin DOMAIN tasks THEN "SS" ELSE "S"
       [] IsDownload(msg, "data") ->
            IF scen \in {"S", "SD"} /\ own THEN "SD"
            ELSE IF scen \in {"SS", "SSE"} /\ st.raised = "none" THEN scen
            ELSE "none"
       [] IsDownload(msg, "end") ->
            IF scen \in {"S", "SD"} /\ own THEN "SE"
            ELSE IF scen = "SS" /\ st.raised = "none" THEN "SSE"
            ELSE IF scen = "SSE" /\ st.raised = "none" THEN "SSEE"
            ELSE "none"
       [] msg.type = "send" /\ msg.subject = "finish" ->
            IF scen \in {"F", "FF"} THEN "FF" ELSE "F"
       [] OTHER -> "none"

Fresh(msg, st) ==
  IF IsDownload(msg, "start")
  THEN IF Scenario(msg, st) = "SS" THEN fresh ELSE tasks = << >>
  ELSE fresh /\ Scenario(msg, st) # "none"

\* The Task objects kept in "writers": those in the table, the open ones,
\* those the last delivery closed, and the closed ones of a two-stream
\* sequence under way.
Retained(st, sc) ==
  LET keep == {w \in DOMAIN st.writers :
                 \/ \E s \in DOMAIN st.tasks : st.tasks[s] = w
                 \/ st.writers[w].open
                 \/ writers[w].open
                 \/ sc \in {"SSE", "SSEE"}}
  IN [w \in keep |-> st.writers[w]]

\* ------------------------------------------------------------- the threads

Init ==
  /\ pc = "run"
  /\ output \in Outputs
  /\ ipa_name = ""
  /\ self_session = "None"
  /\ opt \in [keepWatch : {FALSE}]
  /\ tasks = << >>
  /\ writers = << >>
  /\ disk = << >>
  /\ frida = "none"
  /\ handler = FALSE
  /\ loaded = FALSE
  /\ inflight = "none"
  /\ results = << >>
  /\ callLog = << >>
  /\ exitCode = "running"
  /\ detaches = 0
  /\ nTasks = 0
  /\ scen = "none"
  /\ fresh = FALSE
  /\ lastMsg = NoMsg
  /\ raised = "none"
  /\ logged = FALSE
  /\ lastW = 0

Running == exitCode = "running"

\* run(): the output name, by the three cases of self.output.
IpaNameOf(out) ==
  IF out = "None" THEN "1.ipa"
  ELSE IF out = "dir" THEN "dir/1.ipa"
  ELSE out

Run ==
  /\ Running /\ pc = "run"
  /\ ipa_name' = IpaNameOf(output)
  /\ pc' = "attach"
  /\ UNCHANGED <<output, self_session, opt, handler, loaded, inflight, results, callLog>>
  /\ UNCHANGED <<objvars, msgvars, frida, exitCode, detaches>>

\* dump(): session = self.device.attach(pid), call and return.
AttachCall ==
  /\ Running /\ pc = "attach"
  /\ pc' = "attaching"
  /\ UNCHANGED <<output, ipa_name, self_session, opt, handler, loaded, inflight, results, callLog>>
  /\ UNCHANGED <<objvars, msgvars, frida, exitCode, detaches>>

AttachReturn ==
  /\ Running /\ pc = "attaching"
  /\ frida' = "attached"
  /\ pc' = "attached"
  /\ UNCHANGED <<output, ipa_name, self_session, opt, handler, loaded, inflight, results, callLog>>
  /\ UNCHANGED <<objvars, msgvars, exitCode, detaches>>

\* attach raises: the exception leaves dump(), run() and main().
AttachRaise ==
  /\ Running /\ pc = "attaching"
  /\ pc' = "crashed"
  /\ exitCode' = "1"
  /\ UNCHANGED <<output, ipa_name, self_session, opt, handler, loaded, inflight, results, callLog>>
  /\ UNCHANGED <<objvars, msgvars, frida, detaches>>

\* dump(): create_script, set_log_handler, script.on('message', self.on_message)
Install ==
  /\ Running /\ pc = "attached"
  /\ handler' = TRUE
  /\ pc' = "load"
  /\ UNCHANGED <<output, ipa_name, self_session, opt, loaded, inflight, results, callLog>>
  /\ UNCHANGED <<objvars, msgvars, frida, exitCode, detaches>>

\* dump() without script.load().
Load_skipped ==
  /\ Running /\ pc = "load"
  /\ pc' = "plugins"
  /\ UNCHANGED <<output, ipa_name, self_session, opt, handler, loaded, inflight, results, callLog>>
  /\ UNCHANGED <<objvars, msgvars, frida, exitCode, detaches>>

\* dump(): script.load()
Load ==
  /\ Running /\ pc = "load"
  /\ loaded' = TRUE
  /\ pc' = "plugins"
  /\ UNCHANGED <<output, ipa_name, self_session, opt, handler, inflight, results, callLog>>
  /\ UNCHANGED <<objvars, msgvars, frida, exitCode, detaches>>

\* The exports calls of dump(), in program order, and what follows each.
Pipeline == <<"plugins", "root", "data", "decrypt", "archive">>

NextPc(name) ==
  CASE name = "plugins" -> "root"
    [] name = "root" -> "data"
    [] name = "data" -> "decrypt"
    [] name = "decrypt" -> "archive"
    [] name = "archive" -> "detach"

\* container = self.script.exports.data() + "/tmp"
Container == <<results["data"], "/tmp">>

\* dump() with the two arguments of decrypt exchanged.
ArgsOf_swapped(name) ==
  CASE name = "decrypt" -> <<Container, results["root"]>>
    [] name = "archive" -> <<results["root"], Container, results["decrypt"], opt>>
    [] OTHER -> << >>

\* Arguments dump() passes to each exports call.
ArgsOf(name) ==
  CASE name = "decrypt" -> <<results["root"], Container>>
    [] name = "archive" -> <<results["root"], Container, results["decrypt"], opt>>
    [] OTHER -> << >>

\* Values an exports call can return.
ReturnsOf(name) ==
  CASE name = "root" -> Roots
    [] name = "data" -> Containers
    [] name = "decrypt" -> Tokens
    [] OTHER -> {NoValue}

RpcCall(name) ==
  /\ Running /\ pc = name /\ inflight = "none"
  /\ inflight' = name
  /\ callLog' = Append(callLog, [name |-> name, args |-> ArgsOf(name)])
  /\ UNCHANGED <<pc, output, ipa_name, self_session, opt, handler, loaded, results>>
  /\ UNCHANGED <<objvars, msgvars, frida, exitCode, detaches>>

RpcReturn(name, v) ==
  /\ Running /\ pc = name /\ inflight = name
  /\ inflight' = "none"
  /\ results' = [n \in DOMAIN results \cup {name} |-> IF n = name THEN v ELSE results[n]]
  /\ pc' = NextPc(name)
  /\ UNCHANGED <<output, ipa_name, self_session, opt, handler, loaded, callLog>>
  /\ UNCHANGED <<objvars, msgvars, frida, exitCode, detaches>>

\* An exports call raises: the exception leaves dump(), run() and main().
RpcRaise(name) ==
  /\ Running /\ pc = name /\ inflight = name
  /\ inflight' = "none"
  /\ pc' = "crashed"
  /\ exitCode' = "1"
  /\ UNCHANGED <<output, ipa_name, self_session, opt, handler, loaded, results, callLog>>
  /\ UNCHANGED <<objvars, msgvars, frida, detaches>>

\* dump(): print("detach"); session.detach()
Detach ==
  /\ Running /\ pc = "detach"
  /\ LET st == session_detach(HState)
     IN /\ frida' = st.frida
        /\ detaches' = st.detaches
  /\ pc' = "return"
  /\ UNCHANGED <<output, ipa_name, self_session, opt, handler, loaded, inflight, results, callLog>>
  /\ UNCHANGED <<objvars, msgvars, exitCode>>

\* run() prints the output name, main() returns: the process ends normally.
Return ==
  /\ Running /\ pc = "return"
  /\ pc' = "exited"
  /\ exitCode' = "0"
  /\ UNCHANGED <<output, ipa_name, self_session, opt, handler, loaded, inflight, results, callLog>>
  /\ UNCHANGED <<objvars, msgvars, frida, detaches>>

\* Buffer outcomes of a write of data: -1 (all buffered) or the number of
\* leading bytes of data that reach the file.
Splits(msg) ==
  IF msg.type = "send" /\ msg.subject = "download" /\ msg.event = "data"
  THEN -1 .. Len(msg.data)
  ELSE {-1}

\* The model's bounds on the number of writers and on a writer's size.
WithinBounds(msg) ==
  \/ msg.type # "send" \/ msg.subject # "download"
  \/ msg.event \notin {"start", "data"}
  \/ msg.event = "start" /\ nTasks < MaxWriters
  \/ /\ msg.event = "data"
     /\ msg.session \in DOMAIN tasks =>
          Tell(writers[tasks[msg.session]]) + Len(msg.data) <= MaxTell

\* The delivery thread hands one message to on_message.  The handler is the
\* callback of a loaded script; the transport is not assumed to stop calling
\* it when the session is detached, only when the process has ended.
Deliver(msg, k) ==
  /\ Running /\ handler /\ loaded
  /\ WithinBounds(msg)
  /\ LET st == on_message(HState, msg, k)
     IN /\ tasks' = st.tasks
        /\ writers' = Retained(st, Scenario(msg, st))
        /\ disk' = st.disk
        /\ frida' = st.frida
        /\ exitCode' = st.exitCode
        /\ detaches' = st.detaches
        /\ raised' = st.raised
        /\ logged' = st.logged
        /\ lastW' = st.lastW
        /\ nTasks' = st.nTasks
        /\ scen' = Scenario(msg, st)
        /\ fresh' = Fresh(msg, st)
  /\ lastMsg' = msg
  /\ UNCHANGED mainvars

Next ==
  \/ Run
  \/ AttachCall
  \/ AttachReturn
  \/ AttachRaise
  \/ Install
  \/ Load
  \/ \E i \in 1..Len(Pipeline) : RpcCall(Pipeline[i])
  \/ \E i \in 1..Len(Pipeline) : \E v \in ReturnsOf(Pipeline[i]) : RpcReturn(Pipeline[i], v)
  \/ \E i \in 1..Len(Pipeline) : RpcRaise(Pipeline[i])
  \/ Detach
  \/ Return
  \/ \E msg \in Messages : \E k \in Splits(msg) : Deliver(msg, k)

Spec == Init /\ [][Next]_vars

\* ------------------------------------- file-system failures and interrupts

\* Task.__init__ when open() raises OSError: no Task is made, no file created.
Task_init_fails(st) == [st EXCEPT !.raised = "OSError"]

\* Task.write when the write-through of the buffer raises OSError: the file
\* object stays open and accepts nothing of data.
Task_write_fails(st, id) == [st EXCEPT !.raised = "OSError"]

\* Task.close when the flush in file.close() raises OSError: the file object
\* is closed all the same and what it had buffered is lost.
Task_close_fails(st, id) ==
  [st EXCEPT !.writers[id].buf = << >>,
             !.writers[id].open = FALSE,
             !.raised = "OSError"]

\* The deliveries in which a file-system call can fail: any open(), a write
\* to an open file, a close that has bytes to flush.
CanFail(msg) ==
  /\ msg.type = "send" /\ msg.subject = "download"
  /\ msg.event \in method_mapping
  /\ msg.event # "start" =>
       /\ msg.session \in DOMAIN tasks
       /\ writers[tasks[msg.session]].open
       /\ msg.event \in {"end", "error"} => writers[tasks[msg.session]].buf # << >>

\* on_message for a download message whose file-system call fails.  In
\* close_session the exception leaves before the del: the entry stays.
on_message_fault(st, msg) ==
  CASE msg.event = "start" -> Task_init_fails(st)
    [] msg.event = "data" -> Task_write_fails(st, st.tasks[msg.session])
    [] msg.event \in {"end", "error"} ->
         [Task_close_fails(st, st.tasks[msg.session]) EXCEPT !.lastW = st.tasks[msg.session]]

\* The delivery thread hands on_message a message whose handling fails in
\* the file system.
DeliverFault(msg) ==
  /\ Running /\ handler /\ loaded
  /\ CanFail(msg)
  /\ LET st == on_message_fault(HState, msg)
     IN /\ tasks' = st.tasks
        /\ writers' = Retained(st, "none")
        /\ disk' = st.disk
        /\ frida' = st.frida
        /\ exitCode' = st.exitCode
        /\ detaches' = st.detaches
        /\ raised' = st.raised
        /\ logged' = st.logged
        /\ lastW' = st.lastW
        /\ nTasks' = st.nTasks
  /\ scen' = "none"
  /\ fresh' = FALSE
  /\ lastMsg' = msg
  /\ UNCHANGED mainvars

\* The orders in which the members of a set can be taken.
Orders(S) ==
  {f \in [1..Cardinality(S) -> S] : \A i, j \in 1..Cardinality(S) : f[i] = f[j] => i = j}

RECURSIVE Finalise(_, _)
\* The Tasks of order are finalised one after the other.
Finalise(st, order) ==
  IF order = << >> THEN st
  ELSE Finalise(Task_dealloc(st, Head(order)), Tail(order))

\* KeyboardInterrupt in the main thread, anywhere in run() and dump(): nothing
\* catches it, the process ends.  No code closes the Tasks; the interpreter,
\* as it shuts down, may finalise the file objects (fin, in some order) or
\* leave them as they are.  The delivery thread ends with the process.
Interrupt(fin, order) ==
  /\ Running
  /\ pc \notin {"exited", "crashed"}
  /\ order \in Orders({w \in DOMAIN writers : writers[w].open})
  /\ pc' = "interrupted"
  /\ exitCode' = "130"
  /\ LET st == IF fin THEN Finalise(HState, order) ELSE HState
     IN /\ writers' = [w \in {x \in DOMAIN st.writers :
                                \/ st.writers[x].open
                                \/ \E s \in DOMAIN tasks : tasks[s] = x} |-> st.writers[w]]
        /\ disk' = st.disk
  /\ scen' = "none"
  /\ fresh' = FALSE
  /\ lastMsg' = NoMsg
  /\ raised' = "none"
  /\ logged' = FALSE
  /\ lastW' = 0
  /\ UNCHANGED <<output, ipa_name, self_session, opt, handler, loaded, inflight, results, callLog>>
  /\ UNCHANGED <<tasks, frida, detaches, nTasks>>

NextEnv ==
  \/ Next
  \/ \E msg \in Messages : DeliverFault(msg)
  \/ \E fin \in BOOLEAN : \E order \in Orders({w \in DOMAIN writers : writers[w].open}) :
       Interrupt(fin, order)

\* The runs with an output file name given on the command line.
InitEnv == Init /\ output = "file"

SpecEnv == InitEnv /\ [][NextEnv]_vars

\* ------------------------------------------------------------------ claims

\* A step of the delivery thread: every step of the main thread moves pc or
\* inflight, a delivery moves neither.  The message delivered is lastMsg'.
Delivery == UNCHANGED <<pc, inflight>>

IsFinish(msg) == msg.type = "send" /\ msg.subject = "finish"

\* The open writers are the same objects, in the same state, after the step.
OpenWritersUnchanged ==
  \A w \in DOMAIN writers :
    writers[w].open => w \in DOMAIN writers' /\ writers'[w] = writers[w]

\* C1: after start(id), zero or more data(id, chunk) and end(id), with no
\* other event in between, the destination file holds exactly the chunks in
\* delivery order and the writer's byte count equals the file's length.
C1_FileIsChunks ==
  scen = "SE" =>
    LET w == writers[lastW]
    IN disk[w.path] = w.chunks /\ Tell(w) = Len(disk[w.path])

\* C2: two distinct stream ids, both started on an empty table, that receive
\* data in any interleaving and are both ended: each stream's file holds
\* exactly that stream's own chunks.
C2_NoCrossContamination ==
  (/\ scen = "SSEE" /\ fresh
   /\ \A w \in DOMAIN writers : writers[w].chunks # << >>)
    => \A w \in DOMAIN writers : disk[writers[w].path] = writers[w].chunks

\* C3: a start for a stream id that is already in the table is rejected with
\* a DuplicateStreamError: the table keeps the first writer, which stays open
\* with its bytes, and no second writer is created.
C3_DuplicateRejected ==
  [][(Delivery /\ IsDownload(lastMsg', "start") /\ lastMsg'.session \in DOMAIN tasks)
       => /\ raised' = "DuplicateStreamError"
          /\ tasks' = tasks
          /\ nTasks' = nTasks
          /\ OpenWritersUnchanged]_vars

\* C4: a data, end or error event for a stream id that is not in the table
\* raises the unknown-stream error (KeyError) and leaves the table, the files
\* and every open writer unchanged.
C4_UnknownStream ==
  [][(/\ Delivery
      /\ \E ev \in {"data", "end", "error"} : IsDownload(lastMsg', ev)
      /\ lastMsg'.session \notin DOMAIN tasks)
       => /\ raised' = "KeyError"
          /\ tasks' = tasks
          /\ disk' = disk
          /\ nTasks' = nTasks
          /\ OpenWritersUnchanged]_vars

\* C4 witness: an event for an unknown stream id was handled while another
\* stream had an open writer.
C4_Witness ==
  /\ raised = "KeyError"
  /\ lastMsg.event \in {"data", "end", "error"}
  /\ lastMsg.session \notin DOMAIN tasks
  /\ tasks # << >>

\* C5: once a finish message has been handled, no writer is left open.
C5_FinishClosesWriters ==
  scen \in {"F", "FF"} => \A w \in DOMAIN writers : ~writers[w].open

\* C6: finish is terminal: once it has been handled, the session is detached,
\* the process has stopped with status 0 and the handler has not failed.
C6_FinishTerminal ==
  scen \in {"F", "FF"} => frida = "detached" /\ exitCode = "0" /\ raised = "none"

\* C7: when finish is delivered twice, the second one is a no-op that does
\* not raise, and success termination has happened exactly once.
C7_SecondFinishNoOp ==
  [][(Delivery /\ IsFinish(lastMsg') /\ scen \in {"F", "FF"})
       => /\ raised' = "none"
          /\ detaches' = detaches /\ detaches = 1
          /\ exitCode' = exitCode /\ exitCode = "0"]_vars

\* C8: the session is detached at most once, and a detach requested by the
\* finish handler when the controller has already detached changes nothing
\* and raises nothing.
C8_DetachIdempotent ==
  [][/\ detaches' <= 1
     /\ (Delivery /\ IsFinish(lastMsg') /\ frida = "detached")
          => raised' = "none" /\ frida' = "detached" /\ detaches' = detaches]_vars

\* C9: a message delivered after the session was detached is ignored: no
\* writer is created, no file changes and no table entry is removed.
C9_IgnoredAfterDetach ==
  [][(Delivery /\ frida = "detached")
       => /\ tasks' = tasks
          /\ disk' = disk
          /\ nTasks' = nTasks
          /\ OpenWritersUnchanged]_vars

\* The names of the exports calls made so far.
CallNames == [i \in 1..Len(callLog) |-> callLog[i].name]

\* C10: the exports calls are made in program order (root, data container,
\* decrypt, archive, after plugins), each at most once and each only after the
\* previous one has returned; decrypt receives root's result and the data
\* container's result with "/tmp" appended, archive receives those, decrypt's
\* result and the options.
C10_PipelineOrder ==
  /\ Len(callLog) <= Len(Pipeline)
  /\ CallNames = SubSeq(Pipeline, 1, Len(callLog))
  /\ \A i \in 1..Len(callLog) :
       /\ i < Len(callLog) => callLog[i].name \in DOMAIN results
       /\ callLog[i].name \in DOMAIN results => inflight # callLog[i].name
       /\ callLog[i].name = "decrypt" =>
            callLog[i].args = <<results["root"], <<results["data"], "/tmp">>>>
       /\ callLog[i].name = "archive" =>
            callLog[i].args = <<results["root"], <<results["data"], "/tmp">>,
                                results["decrypt"], opt>>
  /\ inflight # "none" => Len(callLog) > 0 /\ inflight = callLog[Len(callLog)].name
  /\ DOMAIN results \subseteq {callLog[i].name : i \in 1..Len(callLog)}

\* C10 witness: all four calls were made and archive has returned.
C10_Witness ==
  /\ Len(callLog) = Len(Pipeline)
  /\ "archive" \in DOMAIN results
  /\ pc = "detach"

\* The four pipeline calls of dump() (plugins() comes before them).
FourCalls == {"root", "data", "decrypt", "archive"}

\* C11: when one of the four pipeline calls has failed, the session is
\* detached, the process has ended with a non-zero status, and no later
\* pipeline call was made.
C11_PipelineFailureTearsDown ==
  (pc = "crashed" /\ Len(callLog) > 0 /\ callLog[Len(callLog)].name \in FourCalls)
    => /\ frida = "detached"
       /\ exitCode = "1"
       /\ callLog[Len(callLog)].name \notin DOMAIN results

\* C13: a delivery of error(a) that follows start(a) and zero or more data(a):
\* the file still exists (with the stream's chunks when the table was empty
\* at the start), the writer's handle is closed, the table no longer holds a,
\* and the session and the process are as before.
C13_ErrorKeepsFile ==
  [][(/\ Delivery
      /\ scen \in {"S", "SD"}
      /\ IsDownload(lastMsg', "error")
      /\ lastMsg'.session = writers[lastW].session)
       => /\ raised' = "none"
          /\ lastW' = lastW
          /\ writers[lastW].path \in DOMAIN disk'
          /\ fresh => disk'[writers[lastW].path] = writers'[lastW].chunks
          /\ ~writers'[lastW].open
          /\ lastMsg'.session \notin DOMAIN tasks'
          /\ frida' = frida
          /\ exitCode' = "running"]_vars

\* C13 witness: error(a) was handled right after start(a) and a data(a)
\* whose byte is in the file.
C13_Witness ==
  /\ IsDownload(lastMsg, "error")
  /\ raised = "none"
  /\ lastW # 0
  /\ ~writers[lastW].open
  /\ writers[lastW].chunks # << >>
  /\ disk[writers[lastW].path] = writers[lastW].chunks
  /\ tasks = << >>

\* A message on_message does not recognise: not of type "send", or a "send"
\* whose subject is neither "download" nor "finish".
Unrecognised(msg) ==
  msg.type # "send" \/ msg.subject \notin {"download", "finish"}

\* C15: an unrecognised message is logged and otherwise ignored: the table,
\* the writers, the files, the session and the process are unchanged and the
\* handler raises nothing.
C15_UnknownIgnored ==
  [][(Delivery /\ Unrecognised(lastMsg'))
       => /\ logged'
          /\ raised' = "none"
          /\ tasks' = tasks
          /\ disk' = disk
          /\ nTasks' = nTasks
          /\ OpenWritersUnchanged
          /\ frida' = frida
          /\ detaches' = detaches
          /\ exitCode' = exitCode]_vars

\* C15 witness: a message that is not of type "send" but carries the subject
\* "finish" was logged while a stream had an open writer.
C15_Witness ==
  /\ logged
  /\ lastMsg.type = "error"
  /\ lastMsg.subject = "finish"
  /\ tasks # << >>

\* The session's state in the terms of the controller's state machine, read
\* off the position of dump(): Idle before device.attach is called, Attaching
\* while it runs, Attached once it has returned, Running from the first
\* exports call on, Detached once session.detach() has been done.
SessionState ==
  IF frida = "detached" THEN "Detached"
  ELSE IF callLog # << >> THEN "Running"
  ELSE IF frida = "attached" THEN "Attached"
  ELSE IF pc \in {"attaching", "crashed"} THEN "Attaching"
  ELSE "Idle"

Rank(state) ==
  CASE state = "Idle" -> 0
    [] state = "Attaching" -> 1
    [] state = "Attached" -> 2
    [] state = "Running" -> 3
    [] state = "Detached" -> 4

\* C16: the session state moves forward one state at a time along Idle,
\* Attaching, Attached, Running, Detached and never leaves Detached; an
\* exports call is made only when attach has returned, the message handler is
\* installed and the script is loaded.
C16_StateOrder ==
  [][/\ Rank(SessionState') >= Rank(SessionState)
     /\ Rank(SessionState') <= Rank(SessionState) + 1
     /\ SessionState = "Detached" => SessionState' = "Detached"
     /\ callLog' # << >> => handler' /\ loaded' /\ frida' # "none"]_vars

\* C16 witness: the session went through the pipeline, was detached and the
\* process ended.
C16_Witness ==
  /\ SessionState = "Detached"
  /\ Len(callLog) = Len(Pipeline)
  /\ pc = "exited"

\* C18: every writer is opened on the one path ipa_name; a start for a stream
\* id that has no entry leaves the file empty, whatever the other streams
\* wrote to it before, and a start for an id that has an entry leaves in it
\* only what the replaced writer still had buffered.
C18_StartTruncates ==
  [][/\ \A w \in DOMAIN writers' : writers'[w].path = ipa_name'
     /\ (Delivery /\ IsDownload(lastMsg', "start"))
          => disk'[ipa_name] =
               IF lastMsg'.session \in DOMAIN tasks
               THEN LET old == writers[tasks[lastMsg'.session]]
                    IN WriteAt(<< >>, old.pos, old.buf)
               ELSE << >>]_vars

\* C18 witness: a start was delivered while the other stream was active and
\* had bytes in the file; the file is empty.
C18_Witness ==
  /\ IsDownload(lastMsg, "start")
  /\ disk[ipa_name] = << >>
  /\ \E s \in DOMAIN tasks :
       /\ s # lastMsg.session
       /\ writers[tasks[s]].pos > 0
       /\ writers[tasks[s]].path = writers[lastW].path

\* C19: a download message whose event is not a key of method_mapping raises
\* KeyError before any handler is called: the table, the writers and the
\* files are unchanged, and the message is not logged as unknown.
C19_UnknownEventRaises ==
  [][(/\ Delivery
      /\ lastMsg'.type = "send" /\ lastMsg'.subject = "download"
      /\ lastMsg'.event \notin {"start", "data", "end", "error"})
       => /\ raised' = "KeyError"
          /\ ~logged'
          /\ tasks' = tasks
          /\ disk' = disk
          /\ nTasks' = nTasks
          /\ OpenWritersUnchanged]_vars

\* C19 witness: a download message with the event "bogus" raised KeyError
\* while a stream had an open writer.
C19_Witness ==
  /\ lastMsg.subject = "download"
  /\ lastMsg.event = "bogus"
  /\ raised = "KeyError"
  /\ tasks # << >>

\* The step's outcome is the handler outcome st.
SameOutcome(st) ==
  /\ tasks' = st.tasks
  /\ disk' = st.disk
  /\ raised' = st.raised
  /\ lastW' = st.lastW
  /\ nTasks' = st.nTasks
  /\ frida' = st.frida
  /\ exitCode' = st.exitCode
  /\ \A w \in DOMAIN writers' : writers'[w] = st.writers[w]

\* C20: in every state and for every stream id, the delivery of end has the
\* outcome of on_download_error and the delivery of error has the outcome of
\* on_download_finish: same handle closed, same entry removed, same file.
C20_EndEqualsError ==
  [][/\ (Delivery /\ IsDownload(lastMsg', "end"))
          => SameOutcome(on_download_error(HState, lastMsg'.session))
     /\ (Delivery /\ IsDownload(lastMsg', "error"))
          => SameOutcome(on_download_finish(HState, lastMsg'.session))]_vars

\* C20 witness: an end closed a writer that had bytes to flush while the
\* other stream was still active.
C20_Witness ==
  /\ IsDownload(lastMsg, "end")
  /\ raised = "none"
  /\ lastW # 0
  /\ ~writers[lastW].open
  /\ writers[lastW].pos > 0
  /\ tasks # << >>

\* The step handled a download message that failed at the level of its
\* stream: the handler raised, or a start replaced an entry of the table.
StreamFailure ==
  /\ lastMsg'.type = "send" /\ lastMsg'.subject = "download"
  /\ lastMsg'.event \in {"start", "data", "end", "error"}
  /\ \/ raised' # "none"
     \/ lastMsg'.event = "start" /\ lastMsg'.session \in DOMAIN tasks

C14_HandleOpenIffCurrent ==
  Running =>
    /\ \A s \in DOMAIN tasks :
         /\ writers[tasks[s]].open
         /\ writers[tasks[s]].session = s
    /\ \A w \in DOMAIN writers :
         writers[w].open => \E s \in DOMAIN tasks : tasks[s] = w

\* C17: when the process has been interrupted, no writer is open.
C17_InterruptClosesWriters ==
  pc = "interrupted" => \A w \in DOMAIN writers : ~writers[w].open

====
